---- MODULE Spec2Model ----
(***************************************************************************)
(* A model of retro_image_converter.py: the five image filters as pure     *)
(* operators over pixel grids, and the orchestrator retro_image_converter  *)
(* as a state machine that applies them in sequence and writes one file.   *)
(*                                                                         *)
(* An image is a record [w, h, px] with px a function from <<x, y>> to an  *)
(* <<r, g, b>> triple of integers.  Python floats are IEEE-754 binary64;   *)
(* the products and sums the code truncates to integers (the brightness    *)
(* boost, the glitch blend) are computed here bit-exactly, as fixed-point  *)
(* numbers with 56 fractional bits held in four 20-bit limbs and rounded   *)
(* to 53 significant bits (round-half-to-even) after every operation.      *)
(***************************************************************************)
EXTENDS Integers, Sequences, FiniteSets, TLC

(***************************************************************************)
(* Bounds of the model (not program constants).                            *)
(***************************************************************************)
\* number of distinct pixel patterns drawn for an input image (seeds 0..MaxSeed)
MaxSeed == 1
\* apply_lcd_pixel_effect is called on its own with block sizes 1..MaxBlock
MaxBlock == 4
\* apply_crt_warp_effect and apply_refined_glitch_effect are called on their
\* own with images of up to MaxSide x MaxSide pixels
MaxSide == 4
\* apply_lcd_pixel_effect is called on its own with images of 0..MaxBlocks
\* whole blocks per axis
MaxBlocks == 2
\* apply_refined_glitch_effect is called on its own with shift amounts
\* -MaxShift..MaxShift
MaxShift == 5

(***************************************************************************)
(* Program constants: the arguments retro_image_converter passes and the   *)
(* defaults of apply_refined_glitch_effect.                                *)
(***************************************************************************)
PIXEL_SIZE == 10
SHIFT_AMOUNT == 5
CORNER_RADIUS == 100

(***************************************************************************)
(* binary64 arithmetic on non-negative values below 2^16.                  *)
(* A value v is the sequence <<l1, l2, l3, l4>> with                       *)
(*   v * 2^56 = l1 + l2 * 2^20 + l3 * 2^40 + l4 * 2^60.                    *)
(***************************************************************************)
LimbBase == 2^20

FxZero == <<0, 0, 0, 0>>
FxOne == <<0, 0, 65536, 0>>

\* exact sum
FxAdd(A, B) ==
  LET s1 == A[1] + B[1]
      s2 == A[2] + B[2] + (s1 \div LimbBase)
      s3 == A[3] + B[3] + (s2 \div LimbBase)
      s4 == A[4] + B[4] + (s3 \div LimbBase)
  IN  <<s1 % LimbBase, s2 % LimbBase, s3 % LimbBase, s4>>

\* exact difference A - B, for A >= B
FxSub(A, B) ==
  LET d1 == A[1] - B[1]
      b1 == IF d1 < 0 THEN 1 ELSE 0
      d2 == A[2] - B[2] - b1
      b2 == IF d2 < 0 THEN 1 ELSE 0
      d3 == A[3] - B[3] - b2
      b3 == IF d3 < 0 THEN 1 ELSE 0
      d4 == A[4] - B[4] - b3
  IN  <<d1 % LimbBase, d2 % LimbBase, d3 % LimbBase, d4>>

\* exact product with an integer 0 <= k < 2^10
FxMulInt(A, k) ==
  LET p1 == A[1] * k
      p2 == A[2] * k + (p1 \div LimbBase)
      p3 == A[3] * k + (p2 \div LimbBase)
      p4 == A[4] * k + (p3 \div LimbBase)
  IN  <<p1 % LimbBase, p2 % LimbBase, p3 % LimbBase, p4>>

\* number of significant bits of a limb
LimbBits(v) == CHOOSE k \in 0..31 : v < 2^k /\ (k = 0 \/ v >= 2^(k - 1))

\* number of significant bits of the whole fixed-point numerator
FxBitLen(N) ==
  IF N[4] # 0 THEN 60 + LimbBits(N[4])
  ELSE IF N[3] # 0 THEN 40 + LimbBits(N[3])
  ELSE IF N[2] # 0 THEN 20 + LimbBits(N[2])
  ELSE LimbBits(N[1])

\* rounding of an exact result to 53 significant bits, ties to even
\* (at most 19 bits are dropped for the magnitudes that occur here)
FxRound(N) ==
  LET d == FxBitLen(N) - 53
  IN  IF d <= 0 THEN N
      ELSE LET unit == 2^d
               rem  == N[1] % unit
               half == unit \div 2
               odd  == (N[1] \div unit) % 2 = 1
               down == <<N[1] - rem, N[2], N[3], N[4]>>
           IN  IF rem > half \/ (rem = half /\ odd)
               THEN FxAdd(down, <<unit, 0, 0, 0>>)
               ELSE down

\* float(k) * D, one rounding
FMulInt(D, k) == FxRound(FxMulInt(D, k))
\* A + B, one rounding
FAdd(A, B) == FxRound(FxAdd(A, B))
\* 1 - D for 0 <= D <= 1, one rounding
FOneMinus(D) == FxRound(FxSub(FxOne, D))
\* int(v) of a non-negative float: truncation
FxFloor(N) == N[4] * 16 + (N[3] \div 65536)

(***************************************************************************)
(* The float literals used as arguments: the decimal num/den a caller      *)
(* writes and dbl, the binary64 value nearest to it.                       *)
(***************************************************************************)
F_0   == [num |-> 0,  den |-> 1,  dbl |-> FxZero]
F_0_3 == [num |-> 3,  den |-> 10, dbl |-> <<838860, 838860, 19660, 0>>]
F_0_5 == [num |-> 1,  den |-> 2,  dbl |-> <<0, 0, 32768, 0>>]
F_0_8 == [num |-> 4,  den |-> 5,  dbl |-> <<838864, 838860, 52428, 0>>]
F_1   == [num |-> 1,  den |-> 1,  dbl |-> FxOne]
F_1_5 == [num |-> 3,  den |-> 2,  dbl |-> <<0, 0, 98304, 0>>]
F_2_5 == [num |-> 5,  den |-> 2,  dbl |-> <<0, 0, 163840, 0>>]

(***************************************************************************)
(* Images.                                                                 *)
(***************************************************************************)
Min(a, b) == IF a < b THEN a ELSE b
Max(a, b) == IF a > b THEN a ELSE b

Black == <<0, 0, 0>>
Pixels(w, h) == (0..(w - 1)) \X (0..(h - 1))

\* Image.new("RGB", (w, h), "black")
NewImage(w, h) == [w |-> w, h |-> h, px |-> [p \in Pixels(w, h) |-> Black]]

\* "no image": the value of the variable image before Image.open has run
NoImage == [w |-> 0, h |-> 0]

\* The pixel content of an input picture, identified by a seed: channel
\* values spread over 0..255 (a 1x1 picture of seed s has red value s).
Sample(seed, x, y) ==
  LET k == seed + 37 * x + 101 * y
  IN  <<k % 256, (3 * k + 59) % 256, (5 * k + 200) % 256>>

\* an RGB picture of w x h pixels with the content of seed
Picture(w, h, seed) ==
  [w |-> w, h |-> h, px |-> [p \in Pixels(w, h) |-> Sample(seed, p[1], p[2])]]

(***************************************************************************)
(* apply_lcd_pixel_effect (lines 6-35).                                    *)
(* Its argument is a decoded file [w, h, mode, seed].  Image.resize with   *)
(* the BOX filter is the imaging library's: its result has the requested   *)
(* size, and its pixel values are an input of the model, fixed by seed.    *)
(***************************************************************************)
\* line 10: image.resize((width // pixel_size, height // pixel_size), BOX)
BoxResize(image, pixel_size) ==
  Picture(image.w \div pixel_size, image.h \div pixel_size, image.seed)

\* line 10 raises for an empty target size; line 17 raises when getpixel
\* does not return exactly three values (any mode but RGB)
LcdRaises(image, pixel_size) ==
  \/ image.w \div pixel_size = 0
  \/ image.h \div pixel_size = 0
  \/ image.mode # "RGB"

\* lines 18-20: min(int(c * brightness_boost), 255)
BoostRounded(c, brightness_boost) ==
  Min(FxFloor(FAdd(FMulInt(brightness_boost.dbl, c), F_0_5.dbl)), 255)
BoostWrapped(c, brightness_boost) ==
  FxFloor(FMulInt(brightness_boost.dbl, c)) % 256
Boost(c, brightness_boost) ==
  Min(FxFloor(FMulInt(brightness_boost.dbl, c)), 255)

\* line 24
SubpixelSize(pixel_size) == pixel_size \div 3

\* ImageDraw.rectangle([x0, y0, x1, y1], fill): both corners are inside the
\* rectangle; what falls outside the canvas is clipped
Rectangle(canvas, r) ==
  [canvas EXCEPT !.px =
     [p \in DOMAIN canvas.px |->
        IF r.x0 <= p[1] /\ p[1] <= r.x1 /\ r.y0 <= p[2] /\ p[2] <= r.y1
        THEN r.fill ELSE canvas.px[p]]]

Rect(x0, y0, x1, y1, fill) ==
  [x0 |-> x0, y0 |-> y0, x1 |-> x1, y1 |-> y1, fill |-> fill]

\* lines 22-33: the three rectangles of the block of source pixel (x, y),
\* in the order they are drawn
BlockRectsReversed(x, y, rgb, pixel_size, orientation) ==
  LET bx == x * pixel_size
      by == y * pixel_size
      s  == SubpixelSize(pixel_size)
  IN  IF orientation = "vertical"
      THEN << Rect(bx + 2 * s, by, bx + pixel_size, by + pixel_size, <<0, 0, rgb[3]>>),
              Rect(bx + s, by, bx + 2 * s, by + pixel_size, <<0, rgb[2], 0>>),
              Rect(bx, by, bx + s, by + pixel_size, <<rgb[1], 0, 0>>) >>
      ELSE << Rect(bx, by + 2 * s, bx + pixel_size, by + pixel_size, <<0, 0, rgb[3]>>),
              Rect(bx, by + s, bx + pixel_size, by + 2 * s, <<0, rgb[2], 0>>),
              Rect(bx, by, bx + pixel_size, by + s, <<rgb[1], 0, 0>>) >>
BlockRects(x, y, rgb, pixel_size, orientation) ==
  LET bx == x * pixel_size
      by == y * pixel_size
      s  == SubpixelSize(pixel_size)
  IN  IF orientation = "vertical"
      THEN << Rect(bx, by, bx + s, by + pixel_size, <<rgb[1], 0, 0>>),
              Rect(bx + s, by, bx + 2 * s, by + pixel_size, <<0, rgb[2], 0>>),
              Rect(bx + 2 * s, by, bx + pixel_size, by + pixel_size, <<0, 0, rgb[3]>>) >>
      ELSE << Rect(bx, by, bx + pixel_size, by + s, <<rgb[1], 0, 0>>),
              Rect(bx, by + s, bx + pixel_size, by + 2 * s, <<0, rgb[2], 0>>),
              Rect(bx, by + 2 * s, bx + pixel_size, by + pixel_size, <<0, 0, rgb[3]>>) >>

\* lines 17-20: the boosted value of source pixel (x, y)
Boosted(small, x, y, brightness_boost) ==
  LET c == small.px[<<x, y>>]
  IN  <<Boost(c[1], brightness_boost), Boost(c[2], brightness_boost),
        Boost(c[3], brightness_boost)>>

\* lines 15-33: the loops, from source pixel number n (row by row) onwards
RECURSIVE DrawBlocks(_, _, _, _, _, _)
DrawBlocks(canvas, small, n, pixel_size, brightness_boost, orientation) ==
  IF n >= small.w * small.h THEN canvas
  ELSE LET x  == n % small.w
           y  == n \div small.w
           rs == BlockRects(x, y, Boosted(small, x, y, brightness_boost),
                            pixel_size, orientation)
       IN  DrawBlocks(Rectangle(Rectangle(Rectangle(canvas, rs[1]), rs[2]), rs[3]),
                      small, n + 1, pixel_size, brightness_boost, orientation)

\* line 12: the size of the canvas
LcdCanvasUntruncated(image, pixel_size) == NewImage(image.w, image.h)
LcdCanvas(image, pixel_size) ==
  NewImage((image.w \div pixel_size) * pixel_size,
           (image.h \div pixel_size) * pixel_size)

apply_lcd_pixel_effect(image, pixel_size, brightness_boost, orientation) ==
  DrawBlocks(LcdCanvas(image, pixel_size), BoxResize(image, pixel_size), 0,
             pixel_size, brightness_boost, orientation)

(***************************************************************************)
(* apply_crt_warp_effect (lines 38-72).                                    *)
(* strength is a rational [num, den].  With DX = 2x - w and DY = 2y - h    *)
(* (twice the offsets dx, dy from the centre), the code's                  *)
(*   distortion = 1 + strength * (distance / max_distance)^2               *)
(* is the fraction WarpQ / WarpP below and                                 *)
(*   src_x = center_x + dx / distortion = (w*Q + DX*P) / (2*Q).            *)
(* Coordinates and interpolation weights are computed here in exact        *)
(* rational arithmetic.  The code computes them in binary64 through        *)
(* math.sqrt and the platform's pow; every step is a monotone rounding of  *)
(* the exact value, so dx / distortion stays between 0 and dx and the      *)
(* source coordinate between the centre and the pixel, but the truncated   *)
(* interpolated value of the code can be one less than the exact one       *)
(* where the exact sum is an integer.  With strength = 0 every step is     *)
(* exact in binary64 as well.                                              *)
(***************************************************************************)
\* int(v) for the fraction n / d with d > 0: truncation toward zero
TruncDiv(n, d) == IF n >= 0 THEN n \div d ELSE -((-n) \div d)

\* line 53: denominator and numerator of the distortion at (x, y)
WarpP(w, h, strength) == strength.den * (w * w + h * h)
WarpQ(w, h, strength, x, y) ==
  WarpP(w, h, strength)
    + strength.num * ((2 * x - w) * (2 * x - w) + (2 * y - h) * (2 * y - h))

\* lines 54-55: the source coordinate along one axis, as numerator over WarpDen;
\* size is the image's extent along the axis and c the destination coordinate
WarpDen(w, h, strength, x, y) == 2 * WarpQ(w, h, strength, x, y)
SrcNum(w, h, strength, x, y, size, c) ==
  size * WarpQ(w, h, strength, x, y) + (2 * c - size) * WarpP(w, h, strength)

\* line 56: x0, y0 = int(src_x), int(src_y)
Src0(w, h, strength, x, y, size, c) ==
  TruncDiv(SrcNum(w, h, strength, x, y, size, c), WarpDen(w, h, strength, x, y))
\* line 57: x1, y1 = min(x0 + 1, width - 1), min(y0 + 1, height - 1)
Src1(v0, size) == Min(v0 + 1, size - 1)
\* line 58: a, b = src_x - x0, src_y - y0, as numerator over WarpDen
SrcFrac(w, h, strength, x, y, size, c) ==
  SrcNum(w, h, strength, x, y, size, c)
    - Src0(w, h, strength, x, y, size, c) * WarpDen(w, h, strength, x, y)

\* line 60
InBoundsNoZero(x0, y0, w, h) == 0 < x0 /\ x0 < w /\ 0 < y0 /\ y0 < h
InBounds(x0, y0, w, h) == 0 <= x0 /\ x0 < w /\ 0 <= y0 /\ y0 < h

\* lines 62-67: int() of the bilinear sum of one channel, for weights
\* a = an / D and b = bn / D.  The sum is
\*   (D * top + bn * (bot - top)) / D^2
\* with top and bot the two horizontal interpolations scaled by D; bot - top
\* is split as dq * D + dr so that no intermediate exceeds 31 bits.
BilinearSwapped(an, bn, D, p00, p10, p01, p11) ==
  LET top == an * p00 + (D - an) * p10
      bot == an * p01 + (D - an) * p11
      dq  == (bot - top) \div D
      dr  == (bot - top) % D
  IN  (top + bn * dq + ((bn * dr) \div D)) \div D
Bilinear(an, bn, D, p00, p10, p01, p11) ==
  LET top == (D - an) * p00 + an * p10
      bot == (D - an) * p01 + an * p11
      dq  == (bot - top) \div D
      dr  == (bot - top) % D
  IN  (top + bn * dq + ((bn * dr) \div D)) \div D

\* lines 51-70 for one destination pixel: the value written, or the black
\* background of line 45 when the check of line 60 fails
WarpPixel(image, strength, x, y) ==
  LET w  == image.w
      h  == image.h
      x0 == Src0(w, h, strength, x, y, w, x)
      y0 == Src0(w, h, strength, x, y, h, y)
      x1 == Src1(x0, w)
      y1 == Src1(y0, h)
      an == SrcFrac(w, h, strength, x, y, w, x)
      bn == SrcFrac(w, h, strength, x, y, h, y)
      D  == WarpDen(w, h, strength, x, y)
  IN  IF InBounds(x0, y0, w, h)
      THEN [i \in 1..3 |->
              Bilinear(an, bn, D, image.px[<<x0, y0>>][i], image.px[<<x1, y0>>][i],
                       image.px[<<x0, y1>>][i], image.px[<<x1, y1>>][i])]
      ELSE Black

apply_crt_warp_effect(image, strength) ==
  [w |-> image.w, h |-> image.h,
   px |-> [p \in Pixels(image.w, image.h) |-> WarpPixel(image, strength, p[1], p[2])]]

(***************************************************************************)
(* apply_refined_glitch_effect (lines 75-86).                              *)
(***************************************************************************)
\* astype(np.uint8) of a float that has been truncated to the integer v
ToUint8(v) == v % 256

\* lines 83-84 before the conversion: int(intensity * s + (1 - intensity) * o)
BlendFloat(intensity, s, o) ==
  FxFloor(FAdd(FMulInt(intensity.dbl, s), FMulInt(FOneMinus(intensity.dbl), o)))

\* lines 83-84
Blend(intensity, s, o) == ToUint8(BlendFloat(intensity, s, o))

\* line 82: the row offset -shift_amount // 2 (Python parses it as
\* (-shift_amount) // 2, and // rounds toward minus infinity)
GreenShift(shift_amount) == (-shift_amount) \div 2

\* np.roll(plane, k, axis): element i of the result is element (i - k) mod n
RollFrom(i, k, n) == (i - k) % n

apply_refined_glitch_effect(image, shift_amount, intensity) ==
  [w |-> image.w, h |-> image.h,
   px |-> [p \in Pixels(image.w, image.h) |->
     LET o  == image.px[p]
         sr == image.px[<<RollFrom(p[1], shift_amount, image.w), p[2]>>][1]
         sg == image.px[<<p[1], RollFrom(p[2], GreenShift(shift_amount), image.h)>>][2]
     IN  <<Blend(intensity, sr, o[1]), Blend(intensity, sg, o[2]), o[3]>>]]

(***************************************************************************)
(* enhance_color_contrast (lines 89-94): ImageEnhance.Color(image)         *)
(* blends the picture with its grey version; enhance(factor) extrapolates  *)
(* grey + factor * (colour - grey) and clips the result to 0..255.         *)
(***************************************************************************)
\* the library's RGB -> L conversion
Luma(rgb) == (rgb[1] * 19595 + rgb[2] * 38470 + rgb[3] * 7471 + 32768) \div 65536

\* the library's blend of one channel, factor = num / den
EnhanceChannel(grey, c, factor) ==
  LET n == factor.den * grey + factor.num * (c - grey)
  IN  IF n <= 0 THEN 0
      ELSE IF n >= 255 * factor.den THEN 255
      ELSE n \div factor.den

enhance_color_contrast(image, enhancement_factor) ==
  [w |-> image.w, h |-> image.h,
   px |-> [p \in Pixels(image.w, image.h) |->
     LET g == Luma(image.px[p])
     IN  [i \in 1..3 |-> EnhanceChannel(g, image.px[p][i], enhancement_factor)]]]

(***************************************************************************)
(* round_corners (lines 97-106).  The mask is drawn by the library's       *)
(* rounded_rectangle over the box (0, 0, w, h); it is modelled by the      *)
(* geometric shape: an ellipse when the corner diameter spans the box in   *)
(* both directions, else a rectangle whose corners are quarter discs.      *)
(***************************************************************************)
\* line 103: is pixel (x, y) inside the shape (mask value 255)?
MaskVisible(w, h, radius, x, y) ==
  LET fullx == 2 * radius >= w - 1
      dx    == IF fullx THEN w ELSE 2 * radius
      fully == dx >= h - 1
      d     == IF fully THEN h ELSE dx
      r     == d \div 2
      cx    == IF x < r THEN r ELSE IF x > w - r THEN w - r ELSE x
      cy    == IF y < r THEN r ELSE IF y > h - r THEN h - r ELSE y
  IN  IF fullx /\ fully
      THEN (2 * x - w) * (2 * x - w) * h * h + (2 * y - h) * (2 * y - h) * w * w
             <= w * w * h * h
      ELSE (x - cx) * (x - cx) + (y - cy) * (y - cy) <= r * r

\* lines 104-105: paste onto a new (black) image through the mask
round_corners(image, radius) ==
  [w |-> image.w, h |-> image.h,
   px |-> [p \in Pixels(image.w, image.h) |->
     IF MaskVisible(image.w, image.h, radius, p[1], p[2]) THEN image.px[p] ELSE Black]]

(***************************************************************************)
(* The state.                                                              *)
(*   call    the top-level call under way: retro_image_converter with its  *)
(*           arguments, or one of the filters called on its own            *)
(*   pc      the position in retro_image_converter ("open", a stage,       *)
(*           "save", "done", "raised"), or "call" / "returned" / "raised"  *)
(*           for a filter called on its own                                *)
(*   image   the local variable image of retro_image_converter             *)
(*   ran     the stages that have completed, in order, each with the       *)
(*           image it was given and the image it returned                  *)
(*   file    the images written to output_path, in order                   *)
(*   result  the value returned by a filter called on its own              *)
(***************************************************************************)
VARIABLES call, pc, image, ran, file, result

vars == <<call, pc, image, ran, file, result>>

(***************************************************************************)
(* Inputs.                                                                 *)
(***************************************************************************)
Orientations == {"vertical", "horizontal"}

\* sizes (w, h) of the input files of retro_image_converter
FileSizes == {<<9, 25>>, <<10, 10>>, <<25, 19>>, <<12, 20>>, <<20, 23>>}

\* a decoded file: its size, its mode and its pixel content
Decoded(w, h, mode, seed) == [w |-> w, h |-> h, mode |-> mode, seed |-> seed]

ConverterCalls ==
  { [fn |-> "retro_image_converter", decodable |-> d, source |-> s,
     orientation |-> o, apply_crt |-> c, apply_glitch |-> g, color_enhance |-> e] :
      d \in BOOLEAN,
      s \in { Decoded(sz[1], sz[2], m, sd) :
                sz \in FileSizes, m \in {"RGB", "L"}, sd \in 0..MaxSeed },
      o \in Orientations, c \in BOOLEAN, g \in BOOLEAN, e \in BOOLEAN }

\* brightness multipliers, warp strengths and blend intensities with which the
\* filters are called on their own
Boosts == {F_0, F_0_5, F_0_8, F_1, F_1_5, F_2_5}
Strengths == {[num |-> 0, den |-> 1], [num |-> 1, den |-> 10],
              [num |-> 1, den |-> 2], [num |-> 3, den |-> 1]}
Intensities == {F_0, F_0_3, F_0_5, F_0_8, F_1}
\* the arguments retro_image_converter passes (lines 121, 123, 127) and the
\* default intensity of apply_refined_glitch_effect (line 75)
BRIGHTNESS_BOOST == F_1_5
CRT_STRENGTH == [num |-> 1, den |-> 10]
GLITCH_INTENSITY == F_0_8
ENHANCEMENT_FACTOR == F_1_5

\* apply_lcd_pixel_effect on its own: one block of every colour value, and
\* images of 0..MaxBlocks whole blocks per axis, with and without a
\* remainder of bs - 1 pixels
LcdCalls ==
  { [fn |-> "apply_lcd_pixel_effect", image |-> Decoded(3, 3, "RGB", sd),
     pixel_size |-> 3, brightness_boost |-> m, orientation |-> "vertical"] :
      sd \in 0..255, m \in Boosts }
  \cup
  UNION { { [fn |-> "apply_lcd_pixel_effect",
              image |-> Decoded(nx * bs + rx, ny * bs + ry, "RGB", sd),
              pixel_size |-> bs, brightness_boost |-> BRIGHTNESS_BOOST,
              orientation |-> o] :
               nx \in 0..MaxBlocks, ny \in 0..MaxBlocks,
               rx \in {0, bs - 1}, ry \in {0, bs - 1},
               sd \in 0..MaxSeed, o \in Orientations } :
          bs \in 1..MaxBlock }

WarpCalls ==
  { [fn |-> "apply_crt_warp_effect", image |-> Picture(w, h, sd), strength |-> s] :
      w \in 1..MaxSide, h \in 1..MaxSide, sd \in 0..MaxSeed, s \in Strengths }

GlitchCalls ==
  { [fn |-> "apply_refined_glitch_effect", image |-> Picture(w, h, sd),
     shift_amount |-> k, intensity |-> i] :
      w \in 1..MaxSide, h \in 1..MaxSide, sd \in 0..MaxSeed,
      k \in (-MaxShift)..MaxShift, i \in Intensities }

Init ==
  /\ call \in ConverterCalls \cup LcdCalls \cup WarpCalls \cup GlitchCalls
  /\ pc = IF call.fn = "retro_image_converter" THEN "open" ELSE "call"
  /\ image = NoImage
  /\ ran = <<>>
  /\ file = <<>>
  /\ result = NoImage

(***************************************************************************)
(* retro_image_converter (lines 109-131).                                  *)
(***************************************************************************)
\* lines 122-128: the stage that follows each stage
AfterColor(c) == "corners"
AfterGlitch(c) == IF c.color_enhance THEN "color" ELSE AfterColor(c)
AfterCrtAlwaysGlitch(c) == "glitch"
AfterCrt(c) == IF c.apply_glitch THEN "glitch" ELSE AfterGlitch(c)
AfterLcd(c) == IF c.apply_crt THEN "crt" ELSE AfterCrt(c)

Converting == call.fn = "retro_image_converter"

\* a stage has returned out: line 121-128's "image = stage(image, ...)"
Assign(stage, out, next) ==
  /\ image' = out
  /\ ran' = Append(ran, [stage |-> stage, in |-> image, out |-> out])
  /\ pc' = next
  /\ UNCHANGED <<call, file, result>>

\* an exception leaves the function: nothing after it runs
Raise ==
  /\ pc' = "raised"
  /\ UNCHANGED <<call, image, ran, file, result>>

\* line 117: Image.open(input_path)
Open ==
  /\ Converting /\ pc = "open"
  /\ \/ /\ call.decodable
        /\ image' = call.source
        /\ pc' = "lcd"
        /\ UNCHANGED <<call, ran, file, result>>
     \/ /\ ~call.decodable
        /\ Raise

\* line 121
StageLcd ==
  /\ Converting /\ pc = "lcd"
  /\ \/ /\ ~LcdRaises(image, PIXEL_SIZE)
        /\ Assign("lcd",
                  apply_lcd_pixel_effect(image, PIXEL_SIZE, BRIGHTNESS_BOOST,
                                         call.orientation),
                  AfterLcd(call))
     \/ /\ LcdRaises(image, PIXEL_SIZE)
        /\ Raise

\* lines 122-123
StageCrt ==
  /\ Converting /\ pc = "crt"
  /\ Assign("crt", apply_crt_warp_effect(image, CRT_STRENGTH), AfterCrt(call))

\* lines 124-125
StageGlitch ==
  /\ Converting /\ pc = "glitch"
  /\ Assign("glitch",
            apply_refined_glitch_effect(image, SHIFT_AMOUNT, GLITCH_INTENSITY),
            AfterGlitch(call))

\* lines 126-127
StageColor ==
  /\ Converting /\ pc = "color"
  /\ Assign("color", enhance_color_contrast(image, ENHANCEMENT_FACTOR),
            AfterColor(call))

\* line 128
StageCorners ==
  /\ Converting /\ pc = "corners"
  /\ Assign("corners", round_corners(image, CORNER_RADIUS), "save")

\* line 130: image.save(output_path)
Save ==
  /\ Converting /\ pc = "save"
  /\ file' = Append(file, image)
  /\ pc' = "done"
  /\ UNCHANGED <<call, image, ran, result>>

(***************************************************************************)
(* The filters called on their own.                                        *)
(***************************************************************************)
Return(out) ==
  /\ result' = out
  /\ pc' = "returned"
  /\ UNCHANGED <<call, image, ran, file>>

CallLcd ==
  /\ call.fn = "apply_lcd_pixel_effect" /\ pc = "call"
  /\ \/ /\ ~LcdRaises(call.image, call.pixel_size)
        /\ Return(apply_lcd_pixel_effect(call.image, call.pixel_size,
                                         call.brightness_boost, call.orientation))
     \/ /\ LcdRaises(call.image, call.pixel_size)
        /\ Raise

CallWarp ==
  /\ call.fn = "apply_crt_warp_effect" /\ pc = "call"
  /\ Return(apply_crt_warp_effect(call.image, call.strength))

CallGlitch ==
  /\ call.fn = "apply_refined_glitch_effect" /\ pc = "call"
  /\ Return(apply_refined_glitch_effect(call.image, call.shift_amount,
                                        call.intensity))

Next ==
  \/ Open
  \/ StageLcd
  \/ StageCrt
  \/ StageGlitch
  \/ StageColor
  \/ StageCorners
  \/ Save
  \/ CallLcd
  \/ CallWarp
  \/ CallGlitch

Spec == Init /\ [][Next]_vars

(***************************************************************************)
(* Properties.                                                             *)
(***************************************************************************)
IsPrefix(s, t) == Len(s) <= Len(t) /\ \A i \in 1..Len(s) : s[i] = t[i]

\* the stages retro_image_converter is to run for the flags of call c
Expected(c) ==
  <<"lcd">> \o (IF c.apply_crt THEN <<"crt">> ELSE <<>>)
            \o (IF c.apply_glitch THEN <<"glitch">> ELSE <<>>)
            \o (IF c.color_enhance THEN <<"color">> ELSE <<>>)
            \o <<"corners">>

StagesRun == [i \in 1..Len(ran) |-> ran[i].stage]

HasSize(img, w, h) == img.w = w /\ img.h = h /\ DOMAIN img.px = Pixels(w, h)

LcdReturned == call.fn = "apply_lcd_pixel_effect" /\ pc = "returned"
WarpReturned == call.fn = "apply_crt_warp_effect" /\ pc = "returned"
GlitchReturned == call.fn = "apply_refined_glitch_effect" /\ pc = "returned"

\* C1: for every flag combination the stages that have run are, in order, a
\* prefix of lcd, crt (if apply_crt), glitch (if apply_glitch), color (if
\* color_enhance), corners, so none runs twice, out of order or when
\* disabled; each stage was given the previous stage's output (the first
\* one the decoded file); the file is written at most once, only after all
\* the expected stages including corners, with the output of corners; a run
\* that raised has written nothing.
C1_FixedStageOrder ==
  Converting =>
    /\ IsPrefix(StagesRun, Expected(call))
    /\ \A i \in 1..Len(ran) :
         ran[i].in = (IF i = 1 THEN call.source ELSE ran[i - 1].out)
    /\ Len(file) <= 1
    /\ pc \in {"save", "done"} => StagesRun = Expected(call)
    /\ file # <<>> => pc = "done" /\ file[1] = ran[Len(ran)].out
    /\ pc = "done" => Len(file) = 1
    /\ pc = "raised" => file = <<>>

\* a run with the warp and the color enhancer but without the glitch has
\* written its file
C1_Witness ==
  /\ Converting /\ pc = "done"
  /\ call.apply_crt /\ ~call.apply_glitch /\ call.color_enhance
  /\ StagesRun = <<"lcd", "crt", "color", "corners">>
  /\ Len(file) = 1

\* C2: apply_lcd_pixel_effect on a w x h image with w >= bs and h >= bs
\* returns an image of size ((w // bs) * bs, (h // bs) * bs); every other
\* filter returns an image of the size it was given; the file written by
\* retro_image_converter has size ((w // 10) * 10, (h // 10) * 10).
C2_Dimensions ==
  /\ call.fn = "apply_lcd_pixel_effect" =>
       LET bs == call.pixel_size
           w  == call.image.w
           h  == call.image.h
       IN  /\ (w >= bs /\ h >= bs) => pc # "raised"
           /\ pc = "returned" =>
                HasSize(result, (w \div bs) * bs, (h \div bs) * bs)
  /\ (WarpReturned \/ GlitchReturned) =>
       HasSize(result, call.image.w, call.image.h)
  /\ Converting =>
       /\ \A i \in 1..Len(ran) :
            IF ran[i].stage = "lcd"
            THEN HasSize(ran[i].out, (ran[i].in.w \div 10) * 10,
                         (ran[i].in.h \div 10) * 10)
            ELSE HasSize(ran[i].out, ran[i].in.w, ran[i].in.h)
       /\ file # <<>> =>
            HasSize(file[1], (call.source.w \div 10) * 10,
                    (call.source.h \div 10) * 10)

\* a 25 x 19 file has gone through all five stages and was saved as 20 x 10
C2_Witness ==
  /\ Converting /\ pc = "done"
  /\ call.apply_crt /\ call.apply_glitch /\ call.color_enhance
  /\ call.source.w = 25 /\ call.source.h = 19
  /\ file[1].w = 20 /\ file[1].h = 10

\* the stripe (1 red, 2 green, 3 blue) of offset off inside a block
StripeOf(off, bs) ==
  IF off < bs \div 3 THEN 1 ELSE IF off < 2 * (bs \div 3) THEN 2 ELSE 3

\* the offset of pixel p inside its block, along the orientation axis
OffsetOf(p, bs, orientation) ==
  IF orientation = "vertical" THEN p[1] % bs ELSE p[2] % bs

\* the colour (r,0,0), (0,g,0) or (0,0,b) of stripe k for the value rgb
StripeColour(rgb, k) == [i \in 1..3 |-> IF i = k THEN rgb[i] ELSE 0]

LcdStripes(in, out, bs, boost, orientation) ==
  LET small == BoxResize(in, bs)
  IN  /\ HasSize(out, small.w * bs, small.h * bs)
      /\ \A p \in DOMAIN out.px :
           out.px[p] =
             StripeColour(Boosted(small, p[1] \div bs, p[2] \div bs, boost),
                          StripeOf(OffsetOf(p, bs, orientation), bs))

\* C3: in the output of apply_lcd_pixel_effect every pixel of every block
\* (edge blocks included) has the colour of its stripe: offsets [0, s) red,
\* [s, 2s) green, [2s, bs) blue along the orientation axis, s = bs // 3,
\* with the boosted value of the block's own source pixel.
C3_Stripes ==
  /\ LcdReturned =>
       LcdStripes(call.image, result, call.pixel_size, call.brightness_boost,
                  call.orientation)
  /\ Converting =>
       \A i \in 1..Len(ran) :
         ran[i].stage = "lcd" =>
           LcdStripes(ran[i].in, ran[i].out, PIXEL_SIZE, BRIGHTNESS_BOOST,
                      call.orientation)

\* a grid of 2 x 2 blocks of size 4 (s = 1, remainder 1) with horizontal
\* stripes, cut from a 11 x 8 image, has been rendered
C3_Witness ==
  /\ LcdReturned
  /\ call.pixel_size = 4 /\ call.orientation = "horizontal"
  /\ call.image.w = 11 /\ call.image.h = 8
  /\ result.w = 8 /\ result.h = 8
  /\ result.px[<<7, 7>>][3] # 0

\* Python's round(n / d) for n >= 0, d > 0: to nearest, ties to even
RoundHalfEven(n, d) ==
  LET q == n \div d
      r == n % d
  IN  IF 2 * r > d \/ (2 * r = d /\ q % 2 = 1) THEN q + 1 ELSE q
\* to nearest, ties upwards
RoundHalfUp(n, d) == (2 * n + d) \div (2 * d)

\* the fraction n / d made an integer
ToInteger(n, d, rounding) ==
  IF rounding = "even" THEN RoundHalfEven(n, d)
  ELSE IF rounding = "up" THEN RoundHalfUp(n, d)
  ELSE n \div d

\* the non-zero channel of every output pixel is c * num / den made an
\* integer and saturated at 255, for c the channel of the block's source
\* pixel and num / den the brightness multiplier
LcdChannels(in, out, bs, boost, orientation, rounding) ==
  LET small == BoxResize(in, bs)
  IN  \A p \in DOMAIN out.px :
        LET k == StripeOf(OffsetOf(p, bs, orientation), bs)
            c == small.px[<<p[1] \div bs, p[2] \div bs>>][k]
        IN  out.px[p][k] = Min(255, ToInteger(c * boost.num, boost.den, rounding))

\* C4 as claimed: the non-zero channel of a stripe is min(255, round(c * m)),
\* the product rounded to the nearest integer (ties to even as Python's
\* round does, or upwards).
C4_RoundedBoost ==
  LcdReturned =>
    \/ LcdChannels(call.image, result, call.pixel_size, call.brightness_boost,
                   call.orientation, "even")
    \/ LcdChannels(call.image, result, call.pixel_size, call.brightness_boost,
                   call.orientation, "up")

\* C4 as amended: the non-zero channel of a stripe is min(255, int(c * m)),
\* the binary64 product truncated toward zero; for the multipliers drawn
\* here (0, 0.5, 0.8, 1, 1.5, 2.5) and c in 0..255 that is
\* min(255, floor(c * m)).
C4_TruncatedBoost ==
  /\ LcdReturned =>
       LcdChannels(call.image, result, call.pixel_size, call.brightness_boost,
                   call.orientation, "floor")
  /\ Converting =>
       \A i \in 1..Len(ran) :
         ran[i].stage = "lcd" =>
           LcdChannels(ran[i].in, ran[i].out, PIXEL_SIZE, BRIGHTNESS_BOOST,
                       call.orientation, "floor")

\* a source pixel with red value 1 boosted by 1.5 has been drawn as red 1
C4_Witness ==
  /\ LcdReturned
  /\ call.brightness_boost = F_1_5
  /\ BoxResize(call.image, call.pixel_size).px[<<0, 0>>][1] = 1
  /\ result.px[<<0, 0>>] = <<1, 0, 0>>

\* C5 as claimed: with shift_amount = 0 the output of
\* apply_refined_glitch_effect equals its input pixel for pixel, for every
\* intensity in [0, 1].
C5_ZeroShiftIdentity ==
  (GlitchReturned /\ call.shift_amount = 0) => result = call.image

\* the source coordinate of every destination pixel is the pixel itself
WarpIsIdentityMap(img, strength) ==
  \A p \in Pixels(img.w, img.h) :
    /\ Src0(img.w, img.h, strength, p[1], p[2], img.w, p[1]) = p[1]
    /\ Src0(img.w, img.h, strength, p[1], p[2], img.h, p[2]) = p[2]
    /\ SrcFrac(img.w, img.h, strength, p[1], p[2], img.w, p[1]) = 0
    /\ SrcFrac(img.w, img.h, strength, p[1], p[2], img.h, p[2]) = 0

\* C6: apply_crt_warp_effect with strength = 0 returns its input: every
\* destination pixel maps to itself with zero fractional weights and is
\* written with the input pixel's three channel values.
C6_ZeroStrengthIdentity ==
  (WarpReturned /\ call.strength.num = 0) =>
    /\ WarpIsIdentityMap(call.image, call.strength)
    /\ result = call.image

\* a picture of at least 3 x 3 pixels, not all black, was warped with
\* strength 0
C6_Witness ==
  /\ WarpReturned /\ call.strength.num = 0
  /\ call.image.w >= 3 /\ call.image.h >= 3
  /\ result.px[<<2, 2>>] # Black

InRange(img) ==
  \A p \in DOMAIN img.px : \A i \in 1..3 : img.px[p][i] \in 0..255

\* where the truncated product c * m exceeds 255 the stripe holds 255
LcdSaturates(in, out, bs, boost, orientation) ==
  LET small == BoxResize(in, bs)
  IN  \A p \in DOMAIN out.px :
        LET k == StripeOf(OffsetOf(p, bs, orientation), bs)
            c == small.px[<<p[1] \div bs, p[2] \div bs>>][k]
        IN  (c * boost.num) \div boost.den >= 255 => out.px[p][k] = 255

\* the truncated float blends of the red and green planes, before their
\* conversion to 8 bits, lie in 0..255: the conversion wraps nothing
GlitchNoWrap(in, shift_amount, intensity) ==
  \A p \in DOMAIN in.px :
    LET o  == in.px[p]
        sr == in.px[<<RollFrom(p[1], shift_amount, in.w), p[2]>>][1]
        sg == in.px[<<p[1], RollFrom(p[2], GreenShift(shift_amount), in.h)>>][2]
    IN  /\ BlendFloat(intensity, sr, o[1]) \in 0..255
        /\ BlendFloat(intensity, sg, o[2]) \in 0..255

\* C7: every channel of every pixel of every stage's output, and of every
\* filter's result, lies in 0..255; the brightness boost saturates at 255
\* instead of wrapping, and the float blend of the glitch filter is within
\* 0..255 before its conversion to 8 bits.
C7_ChannelRange ==
  /\ LcdReturned =>
       /\ InRange(result)
       /\ LcdSaturates(call.image, result, call.pixel_size,
                       call.brightness_boost, call.orientation)
  /\ WarpReturned => InRange(result)
  /\ GlitchReturned =>
       /\ InRange(result)
       /\ GlitchNoWrap(call.image, call.shift_amount, call.intensity)
  /\ Converting =>
       /\ \A i \in 1..Len(ran) :
            /\ InRange(ran[i].out)
            /\ ran[i].stage = "lcd" =>
                 LcdSaturates(ran[i].in, ran[i].out, PIXEL_SIZE, BRIGHTNESS_BOOST,
                              call.orientation)
            /\ ran[i].stage = "glitch" =>
                 GlitchNoWrap(ran[i].in, SHIFT_AMOUNT, GLITCH_INTENSITY)
       /\ \A i \in 1..Len(file) : InRange(file[i])

\* all five stages have run on a picture whose boost saturated a channel
C7_Witness ==
  /\ Converting /\ pc = "done"
  /\ call.apply_crt /\ call.apply_glitch /\ call.color_enhance
  /\ \E p \in DOMAIN ran[1].out.px : \E k \in 1..3 :
       /\ ran[1].out.px[p][k] = 255
       /\ BoxResize(call.source, PIXEL_SIZE).px[<<p[1] \div 10, p[2] \div 10>>][k]
            \in 171..254

\* C8 as claimed: with intensity 1, output green row y equals input green
\* row (y + trunc(shift_amount / 2)) mod H, the shift amount halved with
\* truncation toward zero.
C8_GreenShiftTruncated ==
  (GlitchReturned /\ call.intensity = F_1) =>
    \A p \in DOMAIN result.px :
      result.px[p][2] =
        call.image.px[<<p[1], (p[2] + TruncDiv(call.shift_amount, 2))
                                 % call.image.h>>][2]

\* v is an integer nearest to n / d (either one on a tie)
IsNearest(v, n, d) == 2 * v * d - 2 * n <= d /\ 2 * n - 2 * v * d <= d

\* C9 as claimed: red and green of the output are
\* intensity * s + (1 - intensity) * o rounded to the nearest integer, s the
\* shifted and o the original value, and blue is the input's blue.
C9_BlendRounded ==
  GlitchReturned =>
    \A p \in DOMAIN result.px :
      LET i  == call.intensity
          in == call.image
          o  == in.px[p]
          sr == in.px[<<RollFrom(p[1], call.shift_amount, in.w), p[2]>>][1]
          sg == in.px[<<p[1], RollFrom(p[2], GreenShift(call.shift_amount), in.h)>>][2]
      IN  /\ IsNearest(result.px[p][1], i.num * sr + (i.den - i.num) * o[1], i.den)
          /\ IsNearest(result.px[p][2], i.num * sg + (i.den - i.num) * o[2], i.den)
          /\ result.px[p][3] = o[3]

\* for every destination pixel of a warp of img: the source coordinate lies
\* between the centre and the pixel on both axes, its integer part and the
\* clamped neighbour are inside the image, the check of line 60 passes, and
\* the pixel of out is the interpolated value
WarpStaysInside(img, out, strength) ==
  \A p \in Pixels(img.w, img.h) :
    LET w  == img.w
        h  == img.h
        D  == WarpDen(w, h, strength, p[1], p[2])
        nx == SrcNum(w, h, strength, p[1], p[2], w, p[1])
        ny == SrcNum(w, h, strength, p[1], p[2], h, p[2])
        x0 == Src0(w, h, strength, p[1], p[2], w, p[1])
        y0 == Src0(w, h, strength, p[1], p[2], h, p[2])
    IN  /\ Min(2 * p[1], w) * D <= 2 * nx /\ 2 * nx <= Max(2 * p[1], w) * D
        /\ Min(2 * p[2], h) * D <= 2 * ny /\ 2 * ny <= Max(2 * p[2], h) * D
        /\ x0 \in 0..(w - 1) /\ y0 \in 0..(h - 1)
        /\ Src1(x0, w) \in 0..(w - 1) /\ Src1(y0, h) \in 0..(h - 1)
        /\ InBounds(x0, y0, w, h)
        /\ out.px[p] =
             [i \in 1..3 |->
                Bilinear(nx - x0 * D, ny - y0 * D, D,
                         img.px[<<x0, y0>>][i], img.px[<<Src1(x0, w), y0>>][i],
                         img.px[<<x0, Src1(y0, h)>>][i],
                         img.px[<<Src1(x0, w), Src1(y0, h)>>][i])]

\* C10: in apply_crt_warp_effect, for every image of at least 1 x 1 pixels
\* and every strength >= 0, the source coordinate of every destination
\* pixel lies between the centre and that pixel, (x0, y0) and the clamped
\* (x1, y1) are inside the image, the bounds check rejects no pixel, and
\* every pixel of the output is the value interpolated from the source.
C10_WarpInBounds ==
  /\ WarpReturned => WarpStaysInside(call.image, result, call.strength)
  /\ Converting =>
       \A i \in 1..Len(ran) :
         ran[i].stage = "crt" =>
           WarpStaysInside(ran[i].in, ran[i].out, CRT_STRENGTH)

\* a picture of at least 3 x 3 pixels was warped with strength 3, and its
\* corner pixel was fetched from strictly inside the picture
C10_Witness ==
  /\ WarpReturned /\ call.strength.num = 3
  /\ call.image.w >= 3 /\ call.image.h >= 3
  /\ SrcFrac(call.image.w, call.image.h, call.strength, 0, 0, call.image.w, 0) > 0

====
